---- MODULE Spec2Model ----
(***************************************************************************)
(* GCodePipeConnector (src/main.py): welding a second G-code toolpath onto *)
(* the top of a first one at a tilt.                                       *)
(*                                                                         *)
(* Numbers.  A Python float is modelled as a record [k, n]: k = "fin" with *)
(* n the value in millionths (Unit = 10^-6), or k = "inf" / "ninf" / "nan" *)
(* for the IEEE specials, or k = "none" for Python's None.  The text of a  *)
(* number inside a G-code line is a record [k, m, d]: k = "num" is the     *)
(* decimal m / 10^d written with exactly d decimals ("2400" is m = 2400,   *)
(* d = 0; "2400.0" is m = 24000, d = 1), k = "bad" is a token the regular  *)
(* expression [-\d.]+ matches but float() rejects ("-", "1.2.3"), k =      *)
(* "nan" / "inf" / "ninf" are the texts Python prints for the specials,    *)
(* and k = "none" is an absent token.                                      *)
(*                                                                         *)
(* The tilt angle is drawn from angles whose cosine and sine are rational  *)
(* with denominator Den, so that the rotation is exact in integers; the    *)
(* inputs are multiples of 0.5, so that the halvings and the products by   *)
(* cos and sin are exact too, and no input is a rounding tie.  The error   *)
(* of binary floating point (below 10^-12 here) is not modelled.           *)
(*                                                                         *)
(* A connector may be given any number of calls of process_files, one      *)
(* after the other; a call is a sequence of steps, one per line read or    *)
(* written.                                                                *)
(***************************************************************************)
EXTENDS Integers, Sequences, FiniteSets, TLC

\* ---------------------------------------------------------------- bounds
MaxLen1 == 2
MaxLen2 == 2

\* ---------------------------------------------------------------- numbers
Den == 5
Pow10 == [k \in 0..6 |-> CASE k = 0 -> 1 [] k = 1 -> 10 [] k = 2 -> 100
                           [] k = 3 -> 1000 [] k = 4 -> 10000
                           [] k = 5 -> 100000 [] k = 6 -> 1000000]

Fin(n) == [k |-> "fin", n |-> n]
Inf == [k |-> "inf", n |-> 0]
NInf == [k |-> "ninf", n |-> 0]
NaN == [k |-> "nan", n |-> 0]
None == [k |-> "none", n |-> 0]

IsFin(a) == a.k = "fin"

FNeg(a) == CASE a.k = "fin" -> Fin(0 - a.n)
             [] a.k = "inf" -> NInf
             [] a.k = "ninf" -> Inf
             [] OTHER -> a

\* IEEE addition: NaN is absorbing, inf + (-inf) is NaN.
FAdd(a, b) == CASE a.k = "nan" \/ b.k = "nan" -> NaN
                [] a.k = "fin" /\ b.k = "fin" -> Fin(a.n + b.n)
                [] a.k = "fin" -> b
                [] b.k = "fin" -> a
                [] a.k = b.k -> a
                [] OTHER -> NaN

FSub(a, b) == FAdd(a, FNeg(b))

\* IEEE product of the finite rational c / Den with a: 0 * inf and
\* anything * NaN are NaN.
FScale(c, a) == CASE a.k = "nan" -> NaN
                  [] a.k = "fin" -> Fin((c * a.n) \div Den)
                  [] c = 0 -> NaN
                  [] c > 0 -> a
                  [] OTHER -> FNeg(a)

\* b < a on floats; every comparison with NaN is false.
FLess(b, a) == CASE a.k = "nan" \/ b.k = "nan" -> FALSE
                 [] a.k = "fin" /\ b.k = "fin" -> b.n < a.n
                 [] b.k = "ninf" -> a.k # "ninf"
                 [] a.k = "inf" -> b.k # "inf"
                 [] OTHER -> FALSE

\* Python's min(a, b): b when b < a, else a.
FMin(a, b) == IF FLess(b, a) THEN b ELSE a

\* ------------------------------------------------------------ number text
Num(m, d) == [k |-> "num", m |-> m, d |-> d]
Bad == [k |-> "bad", m |-> 0, d |-> 0]
NoTok == [k |-> "none", m |-> 0, d |-> 0]

\* float(text) for a well-formed text, in millionths.
ParseFloat(t) == t.m * Pow10[6 - t.d]

\* n / q rounded to the nearest integer, ties to even.
RoundDiv(n, q) ==
    LET f == n \div q
        r == n % q
    IN  IF 2 * r < q THEN f
        ELSE IF 2 * r > q THEN f + 1
        ELSE IF f % 2 = 0 THEN f ELSE f + 1

\* f'{v:.<d>f}': exactly d decimals; the specials print as words.
FormatFixed(v, d) == CASE v.k = "fin" -> Num(RoundDiv(v.n, Pow10[6 - d]), d)
                       [] v.k = "nan" -> [k |-> "nan", m |-> 0, d |-> 0]
                       [] v.k = "inf" -> [k |-> "inf", m |-> 0, d |-> 0]
                       [] OTHER -> [k |-> "ninf", m |-> 0, d |-> 0]

RECURSIVE ReprDecimals(_, _)
ReprDecimals(n, d) == IF d = 6 \/ n % Pow10[6 - d] = 0 THEN d
                      ELSE ReprDecimals(n, d + 1)

\* repr(float) of a finite value: the shortest decimal, at least one decimal.
FormatRepr(n) == LET d == ReprDecimals(n, 1) IN Num(n \div Pow10[6 - d], d)

\* ------------------------------------------------------------------ lines
Letters == {"X", "Y", "Z", "E", "F"}
Axes == {"X", "Y", "Z"}

Toks(x, y, z, e, f) == [X |-> x, Y |-> y, Z |-> z, E |-> e, F |-> f]
NoToks == Toks(NoTok, NoTok, NoTok, NoTok, NoTok)

\* One line of a file without its newline: cmd is the leading word ("" for
\* a line with no visible character), toks the axis tokens a regex search
\* finds, pad whether blanks surround the visible text (str.strip removes
\* them; a motion line has them only at its end).
Line(cmd, toks, pad) == [cmd |-> cmd, toks |-> toks, pad |-> pad]

IsMotion(l) == l.cmd \in {"G0", "G1"}

\* ----------------------------------------------------------------- inputs
\* Lines a first-part file is made of.
Pool1 == { Line("G1", Toks(Num(0, 0), Num(0, 0), Num(1, 0), NoTok, NoTok), FALSE),
           Line("G1", Toks(Num(10, 0), Num(4, 0), Num(25, 1), Num(15, 1), NoTok), FALSE),
           Line(";", NoToks, TRUE),
           Line("G1", Toks(Bad, Num(1, 0), NoTok, NoTok, NoTok), FALSE) }

\* Lines a second-part file is made of.
Pool2 == { Line("G1", Toks(Num(1, 0), Num(1, 0), Num(5, 1), Num(123456, 6), Num(1200, 0)), FALSE),
           Line("G1", Toks(Num(2, 0), NoTok, NoTok, NoTok, NoTok), FALSE),
           Line("G0", Toks(NoTok, NoTok, Num(3, 0), NoTok, NoTok), FALSE),
           Line("G1", Toks(NoTok, NoTok, NoTok, Num(15, 1), Num(600, 0)), TRUE),
           Line(";", NoToks, TRUE),
           Line("", NoToks, FALSE),
           Line("G1", Toks(Bad, Num(1, 0), NoTok, NoTok, NoTok), FALSE) }

SeqsUpTo(S, n) == UNION { [1..k -> S] : k \in 0..n }

Files1 == SeqsUpTo(Pool1, MaxLen1)
Files2 == SeqsUpTo(Pool2, MaxLen2)

\* (cos, sin) * Den of the tilt angles of the model: 0 degrees and
\* atan(4/3) = 53.13 degrees.
Tilts == { [c |-> Den, s |-> 0], [c |-> 3, s |-> 4] }

\* ------------------------------------------------------------------ state
VARIABLES tilt_angle, first_part_max_z, pivot_x, pivot_y, rotation_matrix,
          min_z_second_part, pipe_diameter, wall_thickness,
          first_part_file, second_part_file, out,
          pc, raised, i, max_z, x_coords, y_coords, current_z, point

fields == <<tilt_angle, first_part_max_z, pivot_x, pivot_y, rotation_matrix,
            min_z_second_part, pipe_diameter, wall_thickness>>
files == <<first_part_file, second_part_file>>
locals == <<max_z, x_coords, y_coords, current_z>>
vars == <<fields, files, out, pc, raised, i, locals, point>>

\* The derived geometry of a run.
geometry == <<first_part_max_z, pivot_x, pivot_y, pipe_diameter,
              min_z_second_part, rotation_matrix>>

\* GCodePipeConnector(tilt_angle_degrees); no run has started.
Init ==
    /\ tilt_angle \in Tilts
    /\ first_part_max_z = 0
    /\ pivot_x = 0
    /\ pivot_y = 0
    /\ rotation_matrix = <<>>
    /\ min_z_second_part = Inf
    /\ pipe_diameter = None
    /\ wall_thickness = None
    /\ first_part_file = <<>>
    /\ second_part_file = <<>>
    /\ out = <<>>
    /\ pc = "idle"
    /\ raised = ""
    /\ i = 0
    /\ max_z = 0
    /\ x_coords = <<>>
    /\ y_coords = <<>>
    /\ current_z = 0
    /\ point = <<>>

\* The exceptions a run can end with.
FloatError == "ValueError: could not convert string to float"
MinError == "ValueError: min() arg is an empty sequence"

SeqMax(s) == CHOOSE m \in { s[k] : k \in 1..Len(s) } : \A k \in 1..Len(s) : s[k] <= m
SeqMin(s) == CHOOSE m \in { s[k] : k \in 1..Len(s) } : \A k \in 1..Len(s) : m <= s[k]
Max2(a, b) == IF b > a THEN b ELSE a

\* A call of process_files(first, second, output) on the connector, the
\* first or a later one; the output file of the call does not exist yet.
StartRun ==
    /\ pc = "idle"
    /\ \E f1 \in Files1, f2 \in Files2 :
          /\ first_part_file' = f1
          /\ second_part_file' = f2
    /\ out' = <<>>
    /\ pc' = "analyze_first"
    /\ raised' = ""
    /\ i' = 1
    /\ max_z' = 0
    /\ x_coords' = <<>>
    /\ y_coords' = <<>>
    /\ current_z' = 0
    /\ point' = <<>>
    /\ UNCHANGED fields

\* analyze_first_part, one iteration of the loop over the file.
AnalyzeFirstLine ==
    /\ pc = "analyze_first"
    /\ i <= Len(first_part_file)
    /\ LET l == first_part_file[i]
           t == l.toks
           hasZ == IsMotion(l) /\ t.Z.k # "none"
           hasXY == IsMotion(l) /\ t.X.k # "none" /\ t.Y.k # "none"
           raises == \/ hasZ /\ t.Z.k = "bad"
                     \/ hasXY /\ (t.X.k = "bad" \/ t.Y.k = "bad")
       IN  IF raises
           THEN /\ pc' = "error"
                /\ raised' = FloatError
                /\ UNCHANGED <<i, locals>>
           ELSE /\ UNCHANGED <<pc, raised>>
                /\ i' = i + 1
                /\ current_z' = IF hasZ THEN ParseFloat(t.Z) ELSE current_z
                /\ max_z' = IF hasZ THEN Max2(max_z, ParseFloat(t.Z)) ELSE max_z
                /\ x_coords' = IF hasXY THEN Append(x_coords, ParseFloat(t.X)) ELSE x_coords
                /\ y_coords' = IF hasXY THEN Append(y_coords, ParseFloat(t.Y)) ELSE y_coords
    /\ UNCHANGED <<fields, files, out, point>>

\* analyze_first_part after the loop: pipe properties, max height, pivot.
\* min() of an empty list raises after first_part_max_z has been assigned.
AnalyzeFirstFinish ==
    /\ pc = "analyze_first"
    /\ i > Len(first_part_file)
    /\ first_part_max_z' = max_z
    /\ IF x_coords # <<>> /\ y_coords # <<>>
       THEN LET x_range == SeqMax(x_coords) - SeqMin(x_coords)
                y_range == SeqMax(y_coords) - SeqMin(y_coords)
                d == Max2(x_range, y_range)
            IN  /\ pipe_diameter' = Fin(d)
                /\ wall_thickness' = Fin(d \div 10)
                /\ pivot_x' = (SeqMin(x_coords) + SeqMax(x_coords)) \div 2
                /\ pivot_y' = (SeqMin(y_coords) + SeqMax(y_coords)) \div 2
                /\ pc' = "analyze_second"
                /\ raised' = raised
       ELSE /\ pc' = "error"
            /\ raised' = MinError
            /\ UNCHANGED <<pipe_diameter, wall_thickness, pivot_x, pivot_y>>
    /\ i' = 1
    /\ max_z' = 0
    /\ x_coords' = <<>>
    /\ y_coords' = <<>>
    /\ current_z' = 0
    /\ UNCHANGED <<tilt_angle, rotation_matrix, min_z_second_part, files, out, point>>

\* analyze_second_part, one iteration of the loop over the file.
AnalyzeSecondLine ==
    /\ pc = "analyze_second"
    /\ i <= Len(second_part_file)
    /\ LET l == second_part_file[i]
           hasZ == IsMotion(l) /\ l.toks.Z.k # "none"
       IN  IF hasZ /\ l.toks.Z.k = "bad"
           THEN /\ pc' = "error"
                /\ raised' = FloatError
                /\ UNCHANGED <<i, min_z_second_part>>
           ELSE /\ UNCHANGED <<pc, raised>>
                /\ i' = i + 1
                /\ min_z_second_part' =
                      IF hasZ THEN FMin(min_z_second_part, Fin(ParseFloat(l.toks.Z)))
                      ELSE min_z_second_part
    /\ UNCHANGED <<tilt_angle, first_part_max_z, pivot_x, pivot_y, rotation_matrix,
                   pipe_diameter, wall_thickness, files, out, locals, point>>

\* analyze_second_part returns.
AnalyzeSecondFinish ==
    /\ pc = "analyze_second"
    /\ i > Len(second_part_file)
    /\ pc' = "matrices"
    /\ UNCHANGED <<fields, files, out, i, locals, point, raised>>

\* get_transformation_matrices: rotation about the Y axis, entries * Den.
GetTransformationMatrices ==
    /\ pc = "matrices"
    /\ rotation_matrix' = << <<tilt_angle.c, 0, tilt_angle.s>>,
                             <<0, Den, 0>>,
                             <<0 - tilt_angle.s, 0, tilt_angle.c>> >>
    /\ pc' = "open"
    /\ UNCHANGED <<tilt_angle, first_part_max_z, pivot_x, pivot_y, min_z_second_part,
                   pipe_diameter, wall_thickness, files, out, i, locals, point, raised>>

\* ------------------------------------------------------------- write pass
\* An entry of the output file: the text of the line (cmd, toks, pad) and,
\* for the properties only, where it comes from: src is "first",
\* "transition" or "second", idx the number of the input line.
OutLine(src, idx, cmd, toks, pad) ==
    [src |-> src, idx |-> idx, cmd |-> cmd, toks |-> toks, pad |-> pad]

Text(o) == [cmd |-> o.cmd, toks |-> o.toks, pad |-> o.pad]

\* open(output_file, 'w') creates the empty file.
OpenOutput ==
    /\ pc = "open"
    /\ out' = <<>>
    /\ pc' = "copy"
    /\ i' = 1
    /\ UNCHANGED <<fields, files, locals, point, raised>>

\* A copy that tracks the height of the line it copies.
CopyFirstLine_TrackZ ==
    /\ pc = "copy"
    /\ i <= Len(first_part_file)
    /\ LET l == first_part_file[i]
       IN  /\ out' = Append(out, OutLine("first", i, l.cmd, l.toks, l.pad))
           /\ first_part_max_z' = IF IsMotion(l) /\ l.toks.Z.k = "num"
                                  THEN ParseFloat(l.toks.Z) ELSE first_part_max_z
    /\ i' = i + 1
    /\ UNCHANGED <<tilt_angle, pivot_x, pivot_y, rotation_matrix, min_z_second_part,
                   pipe_diameter, wall_thickness, files, pc, locals, point, raised>>

\* outfile.write(line) for one line of the first part.
CopyFirstLine ==
    /\ pc = "copy"
    /\ i <= Len(first_part_file)
    /\ LET l == first_part_file[i]
       IN  out' = Append(out, OutLine("first", i, l.cmd, l.toks, l.pad))
    /\ i' = i + 1
    /\ UNCHANGED <<fields, files, pc, locals, point, raised>>

\* A lift without the clearance.
LiftText_NoClearance == IF first_part_max_z = 0 THEN Num(0, 0)
                        ELSE FormatRepr(first_part_max_z)

\* f'{self.first_part_max_z + 5}': max_z is the int 0 unless some Z was
\* greater than 0, and then a float.
LiftText == IF first_part_max_z = 0 THEN Num(5, 0)
            ELSE FormatRepr(first_part_max_z + 5 * Pow10[6])

\* The four writes between the parts.
TransitionBlock ==
    << OutLine("transition", 1, "", NoToks, FALSE),
       OutLine("transition", 2, ";", NoToks, FALSE),
       OutLine("transition", 3, "G92", Toks(NoTok, NoTok, NoTok, Num(0, 0), NoTok), FALSE),
       OutLine("transition", 4, "G1", Toks(NoTok, NoTok, NoTok, Num(-3, 0), Num(2400, 0)), FALSE),
       OutLine("transition", 5, "G0", Toks(NoTok, NoTok, LiftText, NoTok, Num(5000, 0)), FALSE),
       OutLine("transition", 6, "", NoToks, FALSE) >>

WriteTransition ==
    /\ pc = "copy"
    /\ i > Len(first_part_file)
    /\ out' = out \o TransitionBlock
    /\ pc' = "second"
    /\ i' = 1
    /\ UNCHANGED <<fields, files, locals, point, raised>>

\* np.dot(rotation_matrix, p)[r], entries of the matrix over Den.
Dot(row, p) == FAdd(FAdd(FScale(row[1], p[1]), FScale(row[2], p[2])), FScale(row[3], p[3]))

\* transform_point(x, y, z)
TransformPoint(x, y, z) ==
    LET connection_offset == Fin(pipe_diameter.n \div 2)
        adjusted_z == FSub(z, min_z_second_part)
        p == << FSub(x, Fin(pivot_x)), FSub(y, Fin(pivot_y)),
                FAdd(adjusted_z, connection_offset) >>
        rotated == [r \in 1..3 |-> Dot(rotation_matrix[r], p)]
    IN  << FAdd(rotated[1], Fin(pivot_x)),
           FAdd(rotated[2], Fin(pivot_y)),
           FSub(FAdd(rotated[3], Fin(first_part_max_z)),
                FScale(tilt_angle.c, connection_offset)) >>

\* The arguments transform_movement gives to transform_point for a line.
MovementPoint(l) ==
    << IF l.toks.X.k # "none" THEN Fin(ParseFloat(l.toks.X)) ELSE Fin(pivot_x),
       IF l.toks.Y.k # "none" THEN Fin(ParseFloat(l.toks.Y)) ELSE Fin(pivot_y),
       IF l.toks.Z.k # "none" THEN Fin(ParseFloat(l.toks.Z)) ELSE min_z_second_part >>

\* Every axis emitted, carried by the input line or not.
AxisToken_Always(l, a, v) == FormatFixed(v, 3)

\* parts.append(f'X{new_point[0]:.3f}') and its like for Y and Z: an axis is
\* emitted only when the input line carries it.
AxisToken(l, a, v) == IF l.toks[a].k # "none" THEN FormatFixed(v, 3) ELSE NoTok

\* E compensated for the flow, as the bend transform does.
EToken_Compensated(l) ==
    IF l.toks.E.k # "none" THEN FormatFixed(Fin(2 * ParseFloat(l.toks.E)), 5)
    ELSE NoTok

\* parts.append(f'E{coords["E"]:.5f}')
EToken(l) == IF l.toks.E.k # "none" THEN FormatFixed(Fin(ParseFloat(l.toks.E)), 5)
             ELSE NoTok

\* parts.append(f'F{coords["F"]}')
FToken(l) == IF l.toks.F.k # "none" THEN FormatRepr(ParseFloat(l.toks.F)) ELSE NoTok

\* The text transform_movement returns for a motion line whose tokens all
\* parse: the line stripped when it has no X, Y, Z, else the rebuilt line.
TransformMovement(l) ==
    IF \A a \in Axes : l.toks[a].k = "none"
    THEN Line(l.cmd, l.toks, FALSE)
    ELSE LET pt == MovementPoint(l)
             new_point == TransformPoint(pt[1], pt[2], pt[3])
         IN  Line(l.cmd,
                  Toks(AxisToken(l, "X", new_point[1]),
                       AxisToken(l, "Y", new_point[2]),
                       AxisToken(l, "Z", new_point[3]),
                       EToken(l), FToken(l)),
                  FALSE)

\* float() raises in transform_movement: some token does not parse.
MovementRaises(l) == \E a \in Letters : l.toks[a].k = "bad"

\* The other lines returned as they are, not stripped.
ProcessLine_NoStrip(l) == IF IsMotion(l) THEN TransformMovement(l) ELSE l

\* process_line(line): the returned text; line.strip() for the other lines.
ProcessLine(l) == IF IsMotion(l) THEN TransformMovement(l)
                  ELSE Line(l.cmd, l.toks, FALSE)

\* A string is falsy when empty.
IsEmptyText(t) == t.cmd = ""

\* One iteration of the loop over the second part: process_line, then the
\* write of the result unless it is empty.
ProcessSecondLine ==
    /\ pc = "second"
    /\ i <= Len(second_part_file)
    /\ LET l == second_part_file[i]
       IN  IF IsMotion(l) /\ MovementRaises(l)
           THEN /\ pc' = "error"
                /\ raised' = FloatError
                /\ UNCHANGED <<out, i, point>>
           ELSE LET t == ProcessLine(l)
                IN  /\ out' = IF IsEmptyText(t) THEN out
                              ELSE Append(out, OutLine("second", i, t.cmd, t.toks, t.pad))
                    /\ point' = IF IsMotion(l) /\ \E a \in Axes : l.toks[a].k # "none"
                                THEN MovementPoint(l) ELSE point
                    /\ i' = i + 1
                    /\ UNCHANGED <<pc, raised>>
    /\ UNCHANGED <<fields, files, locals>>

\* process_files returns.
Finish ==
    /\ pc = "second"
    /\ i > Len(second_part_file)
    /\ pc' = "done"
    /\ UNCHANGED <<fields, files, out, i, locals, point, raised>>

\* The caller has the result of the call, or its exception, and keeps the
\* connector: the files of the call are out of scope.
Release ==
    /\ pc \in {"done", "error"}
    /\ pc' = "idle"
    /\ raised' = ""
    /\ first_part_file' = <<>>
    /\ second_part_file' = <<>>
    /\ out' = <<>>
    /\ i' = 0
    /\ max_z' = 0
    /\ x_coords' = <<>>
    /\ y_coords' = <<>>
    /\ current_z' = 0
    /\ point' = <<>>
    /\ UNCHANGED fields

Next ==
    \/ StartRun
    \/ Release
    \/ AnalyzeFirstLine
    \/ AnalyzeFirstFinish
    \/ AnalyzeSecondLine
    \/ AnalyzeSecondFinish
    \/ GetTransformationMatrices
    \/ OpenOutput
    \/ CopyFirstLine
    \/ WriteTransition
    \/ ProcessSecondLine
    \/ Finish

Spec == Init /\ [][Next]_vars


\* ------------------------------------------------------------- properties
SetMax(S) == CHOOSE m \in S : \A v \in S : v <= m
SetMin(S) == CHOOSE m \in S : \A v \in S : m <= v

\* The Z values the motion lines of a file carry.
ZValues(f) == { ParseFloat(f[k].toks.Z) :
                  k \in { j \in 1..Len(f) : IsMotion(f[j]) /\ f[j].toks.Z.k = "num" } }

\* Maximum height of a first part: the greatest Z of its motion lines, and
\* 0 when none is above 0.
FirstMaxHeight(f) == SetMax(ZValues(f) \cup {0})

\* The indices of the entries of the output that come from src.
From(src) == { k \in 1..Len(out) : out[k].src = src }

Rank(src) == CASE src = "first" -> 1 [] src = "transition" -> 2 [] OTHER -> 3

\* C1: the output is the first part verbatim and in input order, then the
\* transition block (extruder reset, retraction, Z lift to the first part's
\* maximum height + 5), then the lines of the second part in input order;
\* at no moment does a second-part line precede the transition block or a
\* first-part line follow it.
C1_OutputOrder ==
    /\ \A j, k \in 1..Len(out) : j < k => Rank(out[j].src) <= Rank(out[k].src)
    /\ \A j, k \in From("second") : j < k => out[j].idx < out[k].idx
    /\ From("second") # {} => Cardinality(From("transition")) = 6
    /\ pc = "done" =>
          LET n == Len(first_part_file)
          IN  /\ Len(out) >= n + 6
              /\ \A k \in 1..n : Text(out[k]) = first_part_file[k]
              /\ From("first") = 1..n
              /\ From("transition") = (n + 1)..(n + 6)
              /\ out[n + 3].cmd = "G92" /\ out[n + 3].toks.E = Num(0, 0)
              /\ out[n + 4].cmd = "G1" /\ ParseFloat(out[n + 4].toks.E) < 0
              /\ out[n + 4].toks.X = NoTok /\ out[n + 4].toks.Z = NoTok
              /\ out[n + 5].cmd = "G0" /\ out[n + 5].toks.Z.k = "num"
              /\ ParseFloat(out[n + 5].toks.Z)
                    = FirstMaxHeight(first_part_file) + 5 * Pow10[6]
              /\ { out[k].idx : k \in From("second") }
                    = { j \in 1..Len(second_part_file) : second_part_file[j].cmd # "" }

\* A run has completed on a first part with a height above 0 and a second
\* part of which a transformed motion line was written.
C1_Witness ==
    /\ pc = "done"
    /\ Len(first_part_file) = 2
    /\ first_part_max_z > 0
    /\ \E k \in From("second") : out[k].toks.X.k = "num" /\ out[k].toks.X.d = 3

\* C8: a transformed motion line carries exactly the letters among X, Y, Z
\* that its input line carries.
C8_AxesPreserved ==
    \A k \in From("second") :
       LET l == second_part_file[out[k].idx]
       IN  IsMotion(l) =>
              \A a \in Axes : (out[k].toks[a].k # "none") <=> (l.toks[a].k # "none")

\* A motion line with X alone was transformed (Y and Z taken from the
\* defaults) and written with X alone.
C8_Witness ==
    \E k \in From("second") :
       LET l == second_part_file[out[k].idx]
       IN  /\ IsMotion(l)
           /\ l.toks.X.k = "num" /\ l.toks.Y.k = "none" /\ l.toks.Z.k = "none"
           /\ out[k].toks.X.k = "num" /\ out[k].toks.X.d = 3
           /\ out[k].toks.Y = NoTok /\ out[k].toks.Z = NoTok
           /\ point[2] = Fin(pivot_y)

WritePass == {"copy", "second"}

\* C9: nothing is written before the analysis has produced the whole
\* geometry, and no step of the write pass changes the geometry.
C9_TwoPass ==
    /\ [](out # <<>> => /\ pc \in WritePass \cup {"done", "error"}
                        /\ rotation_matrix # <<>>
                        /\ pipe_diameter.k = "fin"
                        /\ first_part_max_z = FirstMaxHeight(first_part_file))
    /\ [][(pc \in WritePass \cup {"open"}) => (geometry' = geometry)]_vars

\* The write pass has transformed a line of the second part.
C9_Witness ==
    /\ pc = "second"
    /\ point # <<>>
    /\ \E k \in From("second") : out[k].toks.Z.k = "num" /\ out[k].toks.Z.d = 3

\* The motion lines of the second part that carry X, Y or Z, up to line j.
Moves(j) == { m \in 1..j : /\ IsMotion(second_part_file[m])
                           /\ \E a \in Axes : second_part_file[m].toks[a].k # "none" }

\* The carried value of an axis after line j: the value of the latest line
\* up to j that carries the axis, else the initial value.
Carried(a, j, initial) ==
    LET S == { m \in Moves(j) : second_part_file[m].toks[a].k = "num" }
    IN  IF S = {} THEN initial
        ELSE Fin(ParseFloat(second_part_file[SetMax(S)].toks[a]))

\* C2: the point given to the rotation takes, for an axis the command
\* omits, the value most recently carried by an earlier command, and the
\* initial {pivot_x, pivot_y, min_z_second_part} when there is none.
C2_CarriedState ==
    (pc = "second" /\ point # <<>>) =>
       point = << Carried("X", i - 1, Fin(pivot_x)),
                  Carried("Y", i - 1, Fin(pivot_y)),
                  Carried("Z", i - 1, min_z_second_part) >>

\* The input lines of the second part that are motion lines and were written.
WrittenMoves == { k \in From("second") : IsMotion(second_part_file[out[k].idx]) }

\* C3 as stated: the E and F tokens of an emitted motion line are those of
\* the input line, same value and same text.
C3_EFUnchanged ==
    \A k \in WrittenMoves :
       LET l == second_part_file[out[k].idx]
       IN  out[k].toks.E = l.toks.E /\ out[k].toks.F = l.toks.F

\* C3 amended: no flow compensation.  A motion line with X, Y or Z is
\* emitted with E equal to the input E rounded to 5 decimals and written
\* with 5 decimals, and with F of the same value as the input F, written
\* as a float; a motion line without X, Y, Z keeps the text of E and F.
\* Neither depends on the tilt angle or on the geometry.
C3_EFValue ==
    \A k \in WrittenMoves :
       LET l == second_part_file[out[k].idx]
           o == out[k]
       IN  IF \A a \in Axes : l.toks[a].k = "none"
           THEN o.toks.E = l.toks.E /\ o.toks.F = l.toks.F
           ELSE /\ (o.toks.E.k = "none") <=> (l.toks.E.k = "none")
                /\ (o.toks.F.k = "none") <=> (l.toks.F.k = "none")
                /\ l.toks.E.k = "num" =>
                      /\ o.toks.E.k = "num" /\ o.toks.E.d = 5
                      /\ o.toks.E.m = RoundDiv(ParseFloat(l.toks.E), 10)
                /\ l.toks.F.k = "num" =>
                      /\ o.toks.F.k = "num" /\ o.toks.F.d >= 1
                      /\ ParseFloat(o.toks.F) = ParseFloat(l.toks.F)

\* Under a tilt that is not 0, a motion line with X, Y, Z, E and F was
\* written with E rounded to 5 decimals, and one without X, Y, Z was
\* written too.
C3_Witness ==
    /\ tilt_angle.s # 0
    /\ \E k \in WrittenMoves :
          LET l == second_part_file[out[k].idx]
          IN  /\ l.toks.X.k = "num" /\ l.toks.E.k = "num" /\ l.toks.E.d = 6
              /\ l.toks.F.k = "num"
              /\ out[k].toks.E.d = 5 /\ out[k].toks.F.d = 1
    /\ \E k \in WrittenMoves :
          LET l == second_part_file[out[k].idx]
          IN  /\ \A a \in Axes : l.toks[a].k = "none"
              /\ l.toks.E.k = "num"

\* The lines of the second part already processed that are not motion lines.
OtherLines == { j \in 1..Len(second_part_file) :
                  /\ ~IsMotion(second_part_file[j])
                  /\ pc \in {"second", "done"}
                  /\ (pc = "second" => j < i) }

Malformed(f) == { j \in 1..Len(f) : IsMotion(f[j]) /\ \E a \in Letters : f[j].toks[a].k = "bad" }

\* C5: a motion line with a token that is not a number does not abort the
\* run; the line is written as it is and the following lines are processed.
C5_MalformedTolerated ==
    /\ raised # FloatError
    /\ pc = "done" =>
          \A j \in Malformed(second_part_file) :
             \E k \in From("second") :
                out[k].idx = j /\ Text(out[k]) = second_part_file[j]

\* The X, Y, Z tokens of the written lines that are not numbers.
NonFinite == { k \in 1..Len(out) : \E a \in Axes : out[k].toks[a].k \in {"nan", "inf", "ninf"} }

\* The geometry of the inputs is degenerate: the XY bounding box of the
\* first part has no extent, or no motion line of the second part has Z.
Degenerate ==
    \/ pipe_diameter = Fin(0)
    \/ ZValues(second_part_file) = {}

\* C6: no X, Y or Z written is NaN or infinite, and on a degenerate
\* geometry the run is aborted instead of writing transformed lines.
C6_NoNaN ==
    /\ NonFinite = {}
    /\ (pc \in {"second", "done"} /\ Degenerate) => WrittenMoves = {}

SamplePoints == { <<Fin(0), Fin(0), Fin(0)>>,
                  <<Fin(Pow10[6]), Fin(2 * Pow10[6]), Fin(3 * Pow10[6])>> }

\* C7: with a tilt of 0 the rotation matrix is the identity and
\* transform_point is the translation by first_part_max_z -
\* min_z_second_part along Z.
C7_PureTranslation ==
    (tilt_angle.s = 0 /\ tilt_angle.c = Den /\ pc = "second" /\ point # <<>>) =>
       /\ rotation_matrix = << <<Den, 0, 0>>, <<0, Den, 0>>, <<0, 0, Den>> >>
       /\ \A p \in SamplePoints \cup (IF point = <<>> THEN {} ELSE {point}) :
             TransformPoint(p[1], p[2], p[3])
                = << p[1], p[2],
                     FAdd(p[3], FSub(Fin(first_part_max_z), min_z_second_part)) >>

\* The minimum Z of a second part as a connector computes it from its
\* constructed state.
SecondMinZ(f) == IF ZValues(f) = {} THEN Inf ELSE Fin(SetMin(ZValues(f)))

\* C10: the geometry a run writes with is determined by the two input
\* files of that run alone.
C10_NoSharedState ==
    pc \in {"second", "done"} =>
       /\ first_part_max_z = FirstMaxHeight(first_part_file)
       /\ min_z_second_part = SecondMinZ(second_part_file)
====
